---- MODULE Spec2Model ----
(***************************************************************************)
(* Persistent sorted maps of Firestore's immutable package:                *)
(*   - ArraySortedMap  (immutable/array_sorted_map.h)                      *)
(*   - LlrbNode        (immutable/llrb_node.h)                             *)
(* Shared storage (std::shared_ptr targets) is modelled as a heap: a       *)
(* function from the addresses in use to the objects stored there.         *)
(* Address 0 is nullptr.  An object is released when the last shared_ptr    *)
(* to it goes away.                                                        *)
(***************************************************************************)
EXTENDS Integers, Sequences, FiniteSets, TLC

\* ---- bounds of the model ----
MaxKey == 3
MaxVal == 2
MaxTreeVal == 5
MaxInserts == 4
MaxConc == 3
MaxStack == 8

Keys == 1..MaxKey
Vals == 1..MaxVal
TreeVals == 1..MaxTreeVal
\* the keys looked up: the keys of the model and one key below and above them
Probes == 0..(MaxKey + 1)
\* the (key, value) pairs passed to LlrbNode::insert: key equal to value, as
\* in the unit tests, or a key that differs from the value
TreeEntries ==
  {<<v, v>> : v \in TreeVals} \cup {<<(v % MaxTreeVal) + 1, v>> : v \in TreeVals}
\* the pairs ToTree inserts: key equal to value
ToTreeEntries == {<<v, v>> : v \in TreeVals}

\* ---- program constants ----
kFixedSize == 25
Black == 0
Red == 1
Default == Red
nullptr == 0

VARIABLES
  arrays,     \* heap of FixedArray objects; arrays[p] is the contents_[0..size_)
  map,        \* array_ of the ArraySortedMap value held by the caller
  acall,      \* the last ArraySortedMap call: operation, arguments, the
              \* receiver m, of which the caller still holds a copy, and
              \* what the call returned (ret)
  pcall,      \* operation and key of the call before the last one
  live_keys,  \* keys inserted and not erased since (the tests' expectation)
  aborted,    \* an assert() of FixedArray::append has failed
  nodes,      \* heap of LlrbNode objects
  root,       \* the LlrbNode::pointer_type held by the caller
  inserted,   \* keys passed to LlrbNode::insert so far (the tests' `expected`)
  tcall,      \* the last LlrbNode::insert call: receiver root, arguments,
              \* and the number n of calls made so far
  iter,         \* the LlrbNodeIterator of the caller's loop: its Policy, stack_
              \* (top last) and end_; policy "none" before the loop
  visited,    \* the <<key, value, node>> of the nodes the loop has
              \* dereferenced, in that order
  icall,      \* the last iterator call: its operation and its key argument
  writer,     \* the thread inside an insert or erase on the published map:
              \* the call, the stores it has still to do, what it returns
  reader,     \* the thread that traverses the published map: the call, its
              \* locals, and what it has read so far (seen)
  published   \* the array and node objects as they were when the map was
              \* handed to the two threads

vars ==
  <<arrays, map, acall, pcall, live_keys, aborted,
    nodes, root, inserted, tcall, iter, visited, icall,
    writer, reader, published>>
\* the variables of the two threads: single-threaded calls leave them alone
cvars == <<writer, reader, published>>
avars == <<arrays, map, acall, pcall, live_keys, aborted, cvars>>
tvars == <<nodes, root, inserted, tcall, iter, visited, icall, cvars>>

\* std::less<K>
comparator(a, b) == a < b

\* std::make_shared: the new object goes to a free address
alloc(heap) ==
  CHOOSE p \in 1..(Cardinality(DOMAIN heap) + 1) :
    p \notin DOMAIN heap /\ \A q \in 1..(p - 1) : q \in DOMAIN heap

\* One statement after another: v is evaluated, once, and then F is
\* evaluated with the result.
Bind(v, F(_)) == CHOOSE r \in {F(x) : x \in {v}} : TRUE

\* the heap once only the objects at the addresses in `held` are kept alive
release(heap, held) == [p \in DOMAIN heap \cap held |-> heap[p]]

\* ======================= ArraySortedMap =================================

\* std::pair<K, V>
value_type(key, value) == [first |-> key, second |-> value]

\* KeyComparator<K, V, C> (map_entry.h): orders entries by key only.
key_comparator_(lhs_key, rhs_key) == comparator(lhs_key, rhs_key)

\* Iterators are offsets from begin(): 0 .. size_; *it is contents_[it].
At(arr, it) == arr[it + 1]

\* std::lower_bound(first, first + len, key, key_comparator_)
RECURSIVE lower_bound(_, _, _, _)
lower_bound(arr, first, len, key) ==
  IF len <= 0 THEN first
  ELSE LET half == len \div 2
           middle == first + half
       IN IF key_comparator_(At(arr, middle).first, key)
            THEN lower_bound(arr, middle + 1, len - half - 1, key)
            ELSE lower_bound(arr, first, half, key)

LowerBound(arr, key) == lower_bound(arr, 0, Len(arr), key)

\* [src_begin, src_end) of an array
Range(arr, src_begin, src_end) ==
  [i \in 1..(src_end - src_begin) |-> arr[src_begin + i]]

append_assert_off(fa, src) == TRUE

\* FixedArray::append: the assertion, then the copy
append_assert(fa, src) == Len(fa) + Len(src) <= kFixedSize
append(fa, src) == fa \o src

find_lower(arr, key) == LowerBound(arr, key)

\* ArraySortedMap::find
find(arr, key) ==
  LET not_found == Len(arr)
      lb == LowerBound(arr, key)
  IN IF lb # not_found /\ ~key_comparator_(key, At(arr, lb).first)
       THEN lb ELSE not_found

\* static_cast<size_type>(x): the 32 bits of x in two's complement, as the
\* two 16-bit halves [hi, lo] of the value hi * 2^16 + lo
size_type(x) == [hi |-> (x \div 65536) % 65536, lo |-> x % 65536]

\* npos = static_cast<size_type>(-1)
npos == size_type(-1)

find_index_end(arr, key) == size_type(find(arr, key) - 0)

\* ArraySortedMap::find_index
find_index(arr, key) ==
  LET found == find(arr, key)
  IN IF found = Len(arr) THEN npos ELSE size_type(found - 0)

\* ArraySortedMap::size and FixedArray::size
map_size(arr) == Len(arr)

\* EmptyArray(): the static kEmptyArray
EmptyArray == 1

\* ArraySortedMap::insert on the map whose array_ is m.
\* Result: the heap afterwards, the array_ of the returned map, and whether
\* every assertion passed.
insert_inplace(heap, m, key, value) ==
  LET arr == heap[m]
      current_end == Len(arr)
      pos == LowerBound(arr, key)
      replacing_entry ==
        pos # current_end /\ ~key_comparator_(key, At(arr, pos).first)
      rest == IF replacing_entry THEN Range(arr, pos + 1, current_end)
                                 ELSE Range(arr, pos, current_end)
  IN [heap |-> [heap EXCEPT ![m] =
                  Range(arr, 0, pos) \o <<value_type(key, value)>> \o rest],
      ret |-> m, ok |-> TRUE]

insert_noskip(heap, m, key, value) ==
  LET arr == heap[m]
      current_end == Len(arr)
      pos == LowerBound(arr, key)
  IN [heap |-> (alloc(heap) :> (Range(arr, 0, pos) \o <<value_type(key, value)>>
                                  \o Range(arr, pos, current_end))) @@ heap,
      ret |-> alloc(heap), ok |-> TRUE]

insert_keepold(heap, m, key, value) ==
  LET arr == heap[m]
      current_end == Len(arr)
      pos == LowerBound(arr, key)
      replacing_entry ==
        pos # current_end /\ ~key_comparator_(key, At(arr, pos).first)
  IN IF replacing_entry
       THEN [heap |-> heap, ret |-> m, ok |-> TRUE]
       ELSE [heap |-> (alloc(heap) :> (Range(arr, 0, pos)
                                         \o <<value_type(key, value)>>
                                         \o Range(arr, pos, current_end)))
                        @@ heap,
             ret |-> alloc(heap), ok |-> TRUE]

insert_alwayscopy(heap, m, key, value) ==
  LET arr == heap[m]
      current_end == Len(arr)
      pos == LowerBound(arr, key)
      replacing_entry ==
        pos # current_end /\ ~key_comparator_(key, At(arr, pos).first)
      rest == IF replacing_entry THEN Range(arr, pos + 1, current_end)
                                 ELSE Range(arr, pos, current_end)
  IN [heap |-> (alloc(heap) :> (Range(arr, 0, pos) \o <<value_type(key, value)>>
                                  \o rest)) @@ heap,
      ret |-> alloc(heap), ok |-> TRUE]

insert_keep(heap, m, key, value) ==
  LET arr == heap[m]
      current_end == Len(arr)
      pos == LowerBound(arr, key)
      src0 == Range(arr, 0, pos)
      src1 == <<value_type(key, value)>>
      src2 == Range(arr, pos, current_end)
      copy0 == append(<<>>, src0)
      copy1 == append(copy0, src1)
      copy2 == append(copy1, src2)
  IN IF append_assert(<<>>, src0) /\ append_assert(copy0, src1)
          /\ append_assert(copy1, src2)
       THEN [heap |-> (alloc(heap) :> copy2) @@ heap, ret |-> alloc(heap),
             ok |-> TRUE]
       ELSE [heap |-> heap, ret |-> m, ok |-> FALSE]

insert(heap, m, key, value) ==
  LET arr == heap[m]
      current_end == Len(arr)
      pos == LowerBound(arr, key)
      replacing_entry ==
        pos # current_end /\ ~key_comparator_(key, At(arr, pos).first)
  IN IF replacing_entry /\ value = At(arr, pos).second
       THEN [heap |-> heap, ret |-> m, ok |-> TRUE]
       ELSE
         LET src0 == Range(arr, 0, pos)
             src1 == <<value_type(key, value)>>
             src2 == IF replacing_entry THEN Range(arr, pos + 1, current_end)
                                        ELSE Range(arr, pos, current_end)
             copy0 == append(<<>>, src0)
             copy1 == append(copy0, src1)
             copy2 == append(copy1, src2)
         IN IF append_assert(<<>>, src0) /\ append_assert(copy0, src1)
                 /\ append_assert(copy1, src2)
              THEN [heap |-> (alloc(heap) :> copy2) @@ heap, ret |-> alloc(heap),
                    ok |-> TRUE]
              ELSE [heap |-> heap, ret |-> m, ok |-> FALSE]

\* an array without the entries that have the given key
Without(arr, key) == SelectSeq(arr, LAMBDA e : e.first # key)

erase_alwayscopy(heap, m, key) ==
  LET arr == heap[m]
  IN [heap |-> (alloc(heap) :> Without(arr, key)) @@ heap, ret |-> alloc(heap),
      ok |-> TRUE]

erase_last(heap, m, key) ==
  LET arr == heap[m]
  IN IF find(arr, key) = Len(arr)
       THEN [heap |-> heap, ret |-> m, ok |-> TRUE]
       ELSE [heap |-> (alloc(heap) :> Range(arr, 0, Len(arr) - 1)) @@ heap,
             ret |-> alloc(heap), ok |-> TRUE]

erase_keeplast(heap, m, key) ==
  LET arr == heap[m]
      pos == find(arr, key)
  IN IF pos = Len(arr) \/ Len(arr) <= 1
       THEN [heap |-> heap, ret |-> m, ok |-> TRUE]
       ELSE [heap |-> (alloc(heap) :> (Range(arr, 0, pos)
                                         \o Range(arr, pos + 1, Len(arr))))
                        @@ heap,
             ret |-> alloc(heap), ok |-> TRUE]

erase_noshare(heap, m, key) ==
  LET arr == heap[m]
      current_end == Len(arr)
      pos == find(arr, key)
  IN IF pos = current_end
       THEN [heap |-> heap, ret |-> m, ok |-> TRUE]
       ELSE [heap |-> (alloc(heap) :> (Range(arr, 0, pos)
                                         \o Range(arr, pos + 1, current_end)))
                        @@ heap,
             ret |-> alloc(heap), ok |-> TRUE]

\* ArraySortedMap::erase on the map whose array_ is m.
erase(heap, m, key) ==
  LET arr == heap[m]
      current_end == Len(arr)
      pos == find(arr, key)
  IN IF pos = current_end
       THEN [heap |-> heap, ret |-> m, ok |-> TRUE]
       ELSE IF Len(arr) <= 1
         THEN [heap |-> heap, ret |-> EmptyArray, ok |-> TRUE]
         ELSE
           LET src0 == Range(arr, 0, pos)
               src1 == Range(arr, pos + 1, current_end)
               copy0 == append(<<>>, src0)
               copy1 == append(copy0, src1)
           IN IF append_assert(<<>>, src0) /\ append_assert(copy0, src1)
                THEN [heap |-> (alloc(heap) :> copy1) @@ heap, ret |-> alloc(heap),
                      ok |-> TRUE]
                ELSE [heap |-> heap, ret |-> m, ok |-> FALSE]

\* A call completes: the caller keeps the receiver and the returned map and
\* drops the map it held from before, or the process dies in the failed
\* assertion.
Returned(r, op, m, key, value) ==
  /\ arrays' = release(r.heap, {EmptyArray, m, IF r.ok THEN r.ret ELSE m})
  /\ map' = IF r.ok THEN r.ret ELSE map
  /\ aborted' = ~r.ok
  /\ acall' = [op |-> op, m |-> m, key |-> key, value |-> value,
               ret |-> IF r.ok THEN r.ret ELSE nullptr]
  /\ pcall' = [op |-> acall.op, key |-> acall.key]
  /\ live_keys' = IF ~r.ok THEN live_keys
                  ELSE IF op = "insert" THEN live_keys \cup {key}
                  ELSE live_keys \ {key}
  /\ UNCHANGED tvars

\* new_map = map.insert(key, value), then the next call is made on new_map
Insert ==
  /\ ~aborted
  /\ \E key \in Keys, value \in Vals :
       Returned(insert(arrays, map, key, value), "insert", map, key, value)

\* new_map = map.erase(key), then the next call is made on new_map
Erase ==
  /\ ~aborted
  /\ \E key \in Keys :
       Returned(erase(arrays, map, key), "erase", map, key, 0)

\* index = map.find_index(key); the caller goes on with map alone
FindIndex ==
  /\ ~aborted
  /\ \E key \in Probes :
       acall' = [op |-> "find_index", m |-> map, key |-> key, value |-> 0,
                 ret |-> find_index(arrays[map], key)]
  /\ pcall' = [op |-> acall.op, key |-> acall.key]
  /\ arrays' = release(arrays, {EmptyArray, map})
  /\ UNCHANGED <<map, live_keys, aborted>>
  /\ UNCHANGED tvars

\* ---- a map filled to its capacity ----

\* the values the tests fill a map with: kFixedSize even numbers, so that
\* there are keys to insert before, between and after the ones present
FullValues == [i \in 1..kFixedSize |-> 2 * i]

\* the keys used on the full map: before the first key, between two keys, a
\* key that is present, after the last key
EdgeKeys == {1, kFixedSize, kFixedSize + 1, 2 * kFixedSize + 1}

\* ToMap(values): result = result.insert(value, value) for each value.
\* s is [heap, result, m]: the heap, the map built so far, and the receiver
\* of the last insert.
RECURSIVE ToMap(_, _)
ToMap(s, values) ==
  IF values = <<>> THEN s
  ELSE Bind(insert(s.heap, s.result, Head(values), Head(values)), LAMBDA r :
       Bind([heap |-> release(r.heap, {EmptyArray, s.result, r.ret}),
             result |-> r.ret, m |-> s.result],
            LAMBDA t : ToMap(t, Tail(values))))

\* new_map = map.insert(key, value) on a map that was filled to its capacity
InsertFull ==
  /\ ~aborted
  /\ \E key \in EdgeKeys, value \in Vals :
       Returned(insert(arrays, map, key, value), "insert", map, key, value)

\* new_map = map.erase(key) on a map that was filled to its capacity
EraseFull ==
  /\ ~aborted
  /\ \E key \in EdgeKeys :
       Returned(erase(arrays, map, key), "erase", map, key, 0)

\* ============================ LlrbNode ==================================

\* A node object: the fields of LlrbNode<K, V>.
LlrbNode(key, value, red, size, left, right) ==
  [key_ |-> key, value_ |-> value, red_ |-> red, size_ |-> size,
   left_ |-> left, right_ |-> right]

\* LlrbNode::Empty(): the static empty_node, built by the private constructor
EmptyNode == LlrbNode(0, 0, Black, 0, nullptr, nullptr)
Empty == 1

\* The public constructor: size_ = left->size_ + 1 + right_->size_
NewNode(heap, key, value, color, left, right) ==
  LlrbNode(key, value, color, heap[left].size_ + 1 + heap[right].size_,
           left, right)

\* LlrbNode::Wrap: make_shared of a node built on the stack
Wrap(heap, node) ==
  Bind(alloc(heap), LAMBDA p : [heap |-> (p :> node) @@ heap, p |-> p])

\* LlrbNode::Create(key, value, color, left, right)
Create(heap, key, value, color, left, right) ==
  Wrap(heap, NewNode(heap, key, value, color, left, right))

empty(heap, p) == heap[p].size_ = 0
red(heap, p) == heap[p].red_ = Red

\* LlrbNode::OppositeColor
OppositeColor(color) == IF color = Red THEN Black ELSE Red

\* The rebalancing steps work on a node n that lives on the stack and on the
\* heap; each returns the pair [heap, n].

RotateLeft_black(heap, n) ==
  Bind(Create(heap, n.key_, n.value_, Black, n.left_, heap[n.right_].left_),
       LAMBDA left :
         [heap |-> left.heap,
          n |-> [n EXCEPT !.value_ = heap[n.right_].value_,
                          !.left_ = left.p,
                          !.right_ = heap[n.right_].right_]])

RotateLeft_novalue(heap, n) ==
  Bind(Create(heap, n.key_, n.value_, Red, n.left_, heap[n.right_].left_),
       LAMBDA left :
         [heap |-> left.heap,
          n |-> [n EXCEPT !.left_ = left.p,
                          !.right_ = heap[n.right_].right_]])

RotateLeft_skip(heap, n) == [heap |-> heap, n |-> n]

\* LlrbNode::RotateLeft
RotateLeft(heap, n) ==
  Bind(Create(heap, n.key_, n.value_, Red, n.left_, heap[n.right_].left_),
       LAMBDA left :
         [heap |-> left.heap,
          n |-> [n EXCEPT !.value_ = heap[n.right_].value_,
                          !.left_ = left.p,
                          !.right_ = heap[n.right_].right_]])

RotateRight_skip(heap, n) == [heap |-> heap, n |-> n]

\* LlrbNode::RotateRight
RotateRight(heap, n) ==
  Bind(Create(heap, n.key_, n.value_, Red, heap[n.left_].right_, n.right_),
       LAMBDA right :
         [heap |-> right.heap,
          n |-> [n EXCEPT !.value_ = heap[n.left_].value_,
                          !.left_ = heap[n.left_].left_,
                          !.right_ = right.p]])

FlipColor_skip(heap, n) == [heap |-> heap, n |-> n]

FlipColor_inplace(heap, n) ==
  [heap |-> [heap EXCEPT ![n.left_].red_ = OppositeColor(@),
                         ![n.right_].red_ = OppositeColor(@)],
   n |-> [n EXCEPT !.red_ = OppositeColor(@)]]

\* LlrbNode::FlipColor
FlipColor(heap, n) ==
  Bind(Wrap(heap, [heap[n.left_] EXCEPT !.red_ = OppositeColor(@)]),
       LAMBDA new_left :
  Bind(Wrap(new_left.heap, [heap[n.right_] EXCEPT !.red_ = OppositeColor(@)]),
       LAMBDA new_right :
         [heap |-> new_right.heap,
          n |-> [n EXCEPT !.red_ = OppositeColor(@),
                          !.left_ = new_left.p,
                          !.right_ = new_right.p]]))

FixUpSteps_flipleft(s0) ==
  Bind(IF red(s0.heap, s0.n.right_) /\ ~red(s0.heap, s0.n.left_)
         THEN RotateLeft(s0.heap, s0.n) ELSE s0,
       LAMBDA s1 :
  Bind(IF /\ red(s1.heap, s1.n.left_)
          /\ red(s1.heap, s1.heap[s1.n.left_].left_)
         THEN RotateRight(s1.heap, s1.n) ELSE s1,
       LAMBDA s2 :
         IF red(s2.heap, s2.n.left_)
           THEN FlipColor(s2.heap, s2.n) ELSE s2))

\* the three rebalancing steps of FixUp, on the pair s = [heap, n]
FixUpSteps(s0) ==
  Bind(IF red(s0.heap, s0.n.right_) /\ ~red(s0.heap, s0.n.left_)
         THEN RotateLeft(s0.heap, s0.n) ELSE s0,
       LAMBDA s1 :
  Bind(IF /\ red(s1.heap, s1.n.left_)
          /\ red(s1.heap, s1.heap[s1.n.left_].left_)
         THEN RotateRight(s1.heap, s1.n) ELSE s1,
       LAMBDA s2 :
         IF red(s2.heap, s2.n.left_) /\ red(s2.heap, s2.n.right_)
           THEN FlipColor(s2.heap, s2.n) ELSE s2))

FixUp_nosize(heap, n) == Bind([heap |-> heap, n |-> n], FixUpSteps)

\* LlrbNode::FixUp
FixUp(heap, n) ==
  Bind([heap |-> heap,
        n |-> [n EXCEPT !.size_ =
                 heap[n.left_].size_ + 1 + heap[n.right_].size_]],
       FixUpSteps)

\* LlrbNode::InsertImpl on the node at p; returns [heap, n], n on the stack
RECURSIVE InsertImpl(_, _, _, _)
InsertImpl(heap, p, key, value) ==
  IF empty(heap, p)
    THEN [heap |-> heap, n |-> NewNode(heap, key, value, Default, Empty, Empty)]
    ELSE
      LET result == heap[p]
          descending == comparator(value, result.value_)
          ascending == comparator(result.value_, value)
      IN IF descending
           THEN Bind(InsertImpl(heap, result.left_, key, value), LAMBDA sub :
                Bind(Wrap(sub.heap, sub.n), LAMBDA w :
                     FixUp(w.heap, [result EXCEPT !.left_ = w.p])))
           ELSE IF ascending
             THEN Bind(InsertImpl(heap, result.right_, key, value), LAMBDA sub :
                  Bind(Wrap(sub.heap, sub.n), LAMBDA w :
                       FixUp(w.heap, [result EXCEPT !.right_ = w.p])))
             ELSE [heap |-> heap, n |-> [result EXCEPT !.value_ = value]]

node_insert_inplace(heap, p, key, value) ==
  Bind(InsertImpl(heap, p, key, value), LAMBDA r :
    IF p = Empty THEN Wrap(r.heap, [r.n EXCEPT !.red_ = Black])
    ELSE [heap |-> [r.heap EXCEPT ![p] = [r.n EXCEPT !.red_ = Black]],
          p |-> p])

node_insert_copyleft(heap, p, key, value) ==
  Bind(InsertImpl(heap, p, key, value), LAMBDA r :
  Bind(Wrap(r.heap, r.heap[r.n.left_]), LAMBDA c :
    Wrap(c.heap, [r.n EXCEPT !.red_ = Black, !.left_ = c.p])))

node_insert_red(heap, p, key, value) ==
  Bind(InsertImpl(heap, p, key, value), LAMBDA r : Wrap(r.heap, r.n))

\* LlrbNode::insert on the node at p; returns [heap, p], p the new root
node_insert(heap, p, key, value) ==
  Bind(InsertImpl(heap, p, key, value), LAMBDA r :
    Wrap(r.heap, IF r.n.red_ = Red THEN [r.n EXCEPT !.red_ = Black] ELSE r.n))

\* the nodes reachable from p, the empty node included
RECURSIVE Reach(_, _)
Reach(heap, p) ==
  IF p = nullptr THEN {}
  ELSE {p} \cup Reach(heap, heap[p].left_) \cup Reach(heap, heap[p].right_)

\* new_root = root->insert(key, value), then the next call is made on
\* new_root; the caller keeps root until that call has returned
NodeInsertOf(entries) ==
  /\ tcall.n < MaxInserts
  /\ \E e \in entries :
     \E r \in {node_insert(nodes, root, e[1], e[2])} :
       LET key == e[1]
           value == e[2]
       IN /\ nodes' = release(r.heap, {Empty} \cup Reach(r.heap, root)
                                              \cup Reach(r.heap, r.p))
          /\ root' = r.p
          /\ inserted' = inserted \cup {key}
          /\ tcall' = [op |-> "insert", root |-> root, key |-> key,
                       value |-> value, n |-> tcall.n + 1]
  /\ UNCHANGED <<iter, visited, icall>>
  /\ UNCHANGED avars

NodeInsert == NodeInsertOf(TreeEntries)

\* ========================= LlrbNodeIterator =============================
\* The policy-based iterator.  A cursor is a record [policy, stack_, end_];
\* stack_ is a sequence of node addresses with the top of the stack last.

Policies == {"ForwardPolicy", "ReversePolicy"}

\* ForwardPolicy::forward / ReversePolicy::forward
forward(policy, heap, node) ==
  IF policy = "ForwardPolicy" THEN heap[node].left_ ELSE heap[node].right_

\* ForwardPolicy::backward / ReversePolicy::backward
backward(policy, heap, node) ==
  IF policy = "ForwardPolicy" THEN heap[node].right_ ELSE heap[node].left_

\* while (!node->empty()) { stack.push(node); node = Policy::<dir>(node); }
RECURSIVE PushWhile(_, _, _, _, _)
PushWhile(heap, policy, dir, stack, node) ==
  IF empty(heap, node) THEN stack
  ELSE PushWhile(heap, policy, dir, Append(stack, node),
                 IF dir = "forward" THEN forward(policy, heap, node)
                                    ELSE backward(policy, heap, node))

\* LlrbNodeIterator::Begin
Begin(heap, policy, node) ==
  Bind(PushWhile(heap, policy, "backward", <<>>, node), LAMBDA stack :
    [policy |-> policy, stack_ |-> stack, end_ |-> stack = <<>>])

\* LlrbNodeIterator::End
End(heap, policy, node) ==
  Bind(PushWhile(heap, policy, "forward", <<>>, node), LAMBDA stack :
    [policy |-> policy, stack_ |-> stack, end_ |-> TRUE])

top_noend(i) == IF i.stack_ = <<>> THEN Empty ELSE i.stack_[Len(i.stack_)]

\* LlrbNodeIterator::top and ::get
top(i) == IF i.end_ THEN Empty ELSE i.stack_[Len(i.stack_)]

\* operator== and operator!=
IterEq(a, b) == top(a) = top(b)

PreIncrement_pop(heap, i) ==
  IF i.end_ THEN i
  ELSE Bind(SubSeq(i.stack_, 1, Len(i.stack_) - 1), LAMBDA stack :
              [i EXCEPT !.stack_ = stack,
                        !.end_ = IF stack = <<>> THEN TRUE ELSE i.end_])

\* LlrbNodeIterator::operator++
PreIncrement(heap, i) ==
  IF i.end_ THEN i
  ELSE Bind(PushWhile(heap, i.policy, "backward",
                      SubSeq(i.stack_, 1, Len(i.stack_) - 1),
                      forward(i.policy, heap, top(i))),
            LAMBDA stack :
              [i EXCEPT !.stack_ = stack,
                        !.end_ = IF stack = <<>> THEN TRUE ELSE i.end_])

\* LlrbNodeIterator::operator--
PreDecrement(heap, i) ==
  IF i.end_ THEN [i EXCEPT !.end_ = FALSE]
  ELSE Bind(PushWhile(heap, i.policy, "forward",
                      SubSeq(i.stack_, 1, Len(i.stack_) - 1),
                      backward(i.policy, heap, top(i))),
            LAMBDA stack : [i EXCEPT !.stack_ = stack])

\* util::Compare(left, right, comparator) (util/comparison.h)
Compare(left, right) ==
  IF comparator(left, right) THEN "Ascending"
  ELSE IF comparator(right, left) THEN "Descending"
  ELSE "Same"

\* ForwardPolicy::direction / ReversePolicy::direction
direction(policy) ==
  IF policy = "ForwardPolicy" THEN "Ascending" ELSE "Descending"

\* the loop of LlrbNodeIterator::LowerBound; it compares root->key()
RECURSIVE LowerBoundLoop(_, _, _, _, _, _)
LowerBoundLoop(heap, policy, node0, key, stack, node) ==
  IF empty(heap, node) THEN stack
  ELSE LET cmp == Compare(heap[node0].key_, key)
       IN IF cmp = "Same" THEN Append(stack, node)
          ELSE LowerBoundLoop(heap, policy, node0, key, Append(stack, node),
                              IF cmp = direction(policy)
                                THEN forward(policy, heap, node)
                                ELSE backward(policy, heap, node))

\* LlrbNodeIterator::LowerBound
IterLowerBound(heap, policy, node0, key) ==
  Bind(LowerBoundLoop(heap, policy, node0, key, <<>>, node0), LAMBDA stack :
    [policy |-> policy, stack_ |-> stack, end_ |-> empty(heap, node0)])

\* operator* and operator-> as the loops use them: key(), value() and the
\* address of the node the cursor is at
Deref(heap, i) == <<heap[top(i)].key_, heap[top(i)].value_, top(i)>>

\* root = ToTree(values): one more root = root->insert(value, value), made
\* before the loop over the tree starts
ToTreeInsert ==
  /\ iter.policy = "none"
  /\ NodeInsertOf(ToTreeEntries)

\* for (auto i = Begin(root); ...: the loop starts
IterBegin ==
  /\ iter.policy = "none"
  /\ \E policy \in Policies : iter' = Begin(nodes, policy, root)
  /\ icall' = [op |-> "Begin", key |-> 0]
  /\ UNCHANGED <<nodes, root, inserted, tcall, visited>>
  /\ UNCHANGED avars

\* ...; i != End(root); ++i) { visit(*i); }: one turn of the loop
IterNext ==
  /\ iter.policy \in Policies
  /\ icall.op \in {"Begin", "++"}
  /\ ~IterEq(iter, End(nodes, iter.policy, root))
  /\ visited' = Append(visited, Deref(nodes, iter))
  /\ iter' = PreIncrement(nodes, iter)
  /\ icall' = [op |-> "++", key |-> 0]
  /\ UNCHANGED <<nodes, root, inserted, tcall>>
  /\ UNCHANGED avars

\* no thread has been started
NoThreads ==
  /\ writer = [op |-> "none", key |-> 0, value |-> 0, todo |-> <<>>,
               ret |-> nullptr, pc |-> "idle"]
  /\ reader = [op |-> "none", key |-> 0, first |-> 0, len |-> 0,
               cursor |-> [policy |-> "none", stack_ |-> <<>>, end_ |-> TRUE],
               seen |-> <<>>, overlapped |-> FALSE, pc |-> "idle"]
  /\ published = [arrays |-> <<>>, nodes |-> <<>>]

Init ==
  /\ arrays = (EmptyArray :> <<>>)
  /\ map = EmptyArray
  /\ acall = [op |-> "none", m |-> EmptyArray, key |-> 0, value |-> 0,
              ret |-> nullptr]
  /\ pcall = [op |-> "none", key |-> 0]
  /\ live_keys = {}
  /\ aborted = FALSE
  /\ nodes = (Empty :> EmptyNode)
  /\ root = Empty
  /\ inserted = {}
  /\ tcall = [op |-> "none", root |-> Empty, key |-> 0, value |-> 0, n |-> 0]
  /\ iter = [policy |-> "none", stack_ |-> <<>>, end_ |-> TRUE]
  /\ visited = <<>>
  /\ icall = [op |-> "none", key |-> 0]
  /\ NoThreads

\* the state after map = ToMap(FullValues)
InitFull ==
  /\ \E s \in {ToMap([heap |-> (EmptyArray :> <<>>), result |-> EmptyArray,
                      m |-> EmptyArray], FullValues)} :
       /\ arrays = s.heap
       /\ map = s.result
       /\ acall = [op |-> "insert", m |-> s.m,
                   key |-> FullValues[kFixedSize],
                   value |-> FullValues[kFixedSize], ret |-> s.result]
  /\ pcall = [op |-> "insert", key |-> FullValues[kFixedSize - 1]]
  /\ live_keys = {FullValues[i] : i \in 1..kFixedSize}
  /\ aborted = FALSE
  /\ nodes = (Empty :> EmptyNode)
  /\ root = Empty
  /\ inserted = {}
  /\ tcall = [op |-> "none", root |-> Empty, key |-> 0, value |-> 0, n |-> 0]
  /\ iter = [policy |-> "none", stack_ |-> <<>>, end_ |-> TRUE]
  /\ visited = <<>>
  /\ icall = [op |-> "none", key |-> 0]
  /\ NoThreads

NextArray == Insert \/ Erase \/ FindIndex

SpecArray == Init /\ [][NextArray]_vars

NextFull == InsertFull \/ EraseFull

SpecFull == InitFull /\ [][NextFull]_vars

NextTree == NodeInsert

SpecTree == Init /\ [][NextTree]_vars

\* i = End(root): a loop that walks back from the end starts
IterEnd ==
  /\ iter.policy = "none"
  /\ \E policy \in Policies : iter' = End(nodes, policy, root)
  /\ icall' = [op |-> "End", key |-> 0]
  /\ UNCHANGED <<nodes, root, inserted, tcall, visited>>
  /\ UNCHANGED avars

\* --i; visit(*i); one turn of the loop that applies -- size() times
IterPrev ==
  /\ iter.policy \in Policies
  /\ icall.op \in {"End", "--"}
  /\ Len(visited) < nodes[root].size_
  /\ \E d \in {PreDecrement(nodes, iter)} :
       /\ iter' = d
       /\ visited' = Append(visited, Deref(nodes, d))
  /\ icall' = [op |-> "--", key |-> 0]
  /\ UNCHANGED <<nodes, root, inserted, tcall>>
  /\ UNCHANGED avars

\* the keys given to keys_from: the keys of the model, one below, one above
TreeProbes == 0..(MaxTreeVal + 1)

\* map.keys_from(key) on the TreeSortedMap whose root_ is root: the range
\* starts at LowerBound(key)
KeysFrom ==
  /\ iter.policy = "none"
  /\ \E key \in TreeProbes :
       /\ iter' = IterLowerBound(nodes, "ForwardPolicy", root, key)
       /\ icall' = [op |-> "LowerBound", key |-> key]
  /\ UNCHANGED <<nodes, root, inserted, tcall, visited>>
  /\ UNCHANGED avars

\* one turn of the loop over the range keys_from returned, up to end()
KeysFromNext ==
  /\ icall.op \in {"LowerBound", "keys_from"}
  /\ ~IterEq(iter, End(nodes, "ForwardPolicy", root))
  /\ visited' = Append(visited, Deref(nodes, iter))
  /\ iter' = PreIncrement(nodes, iter)
  /\ icall' = [op |-> "keys_from", key |-> icall.key]
  /\ UNCHANGED <<nodes, root, inserted, tcall>>
  /\ UNCHANGED avars

NextIter ==
  \/ ToTreeInsert
  \/ IterBegin
  \/ IterNext
  \/ IterEnd
  \/ IterPrev
  \/ KeysFrom
  \/ KeysFromNext

SpecIter == Init /\ [][NextIter]_vars

\* ============================ TreeSortedMap ==============================
\* The map is its root_; key_comparator_ is the one comparator of the model.

\* TreeSortedMap(entries): one turn of the constructor's loop
MapCtor ==
  /\ tcall.op \in {"none", "insert"}
  /\ NodeInsertOf(ToTreeEntries)

\* TreeSortedMap::erase: return *this
MapErase ==
  /\ tcall.op \in {"none", "insert", "erase"}
  /\ \E key \in TreeVals :
       /\ root' = root
       /\ inserted' = inserted \ {key}
       /\ tcall' = [op |-> "erase", root |-> root, key |-> key,
                    value |-> 0, n |-> tcall.n]
  /\ UNCHANGED <<nodes, iter, visited, icall>>
  /\ UNCHANGED avars

\* TreeSortedMap::insert: the body ends without a return statement, so the
\* root_ of the map the caller receives is indeterminate: null or any object
MapInsert ==
  /\ tcall.op \in {"none", "insert", "erase"}
  /\ \E e \in ToTreeEntries :
       /\ root' \in {nullptr} \cup DOMAIN nodes
       /\ inserted' = inserted \cup {e[1]}
       /\ tcall' = [op |-> "map_insert", root |-> root, key |-> e[1],
                    value |-> e[2], n |-> tcall.n]
  /\ UNCHANGED <<nodes, iter, visited, icall>>
  /\ UNCHANGED avars

NextTreeMap == MapCtor \/ MapErase \/ MapInsert

SpecTreeMap == Init /\ [][NextTreeMap]_vars

\* ====================== the rotations inside InsertImpl ==================

\* the nodes InsertImpl(key, value) is called on, from p down, the empty
\* node at the end of the walk left out
RECURSIVE WalkedPath(_, _, _)
WalkedPath(heap, p, value) ==
  IF empty(heap, p) THEN {}
  ELSE {p} \cup
       IF comparator(value, heap[p].value_)
         THEN WalkedPath(heap, heap[p].left_, value)
       ELSE IF comparator(heap[p].value_, value)
         THEN WalkedPath(heap, heap[p].right_, value)
       ELSE {}

\* root->insert(...) of the trees the rotations are observed in
RotBuild ==
  /\ tcall.op \in {"none", "insert"}
  /\ NodeInsertOf(ToTreeEntries)

\* The state of root->insert(key, value) when FixUp, called on the copy
\* `result` of a node p on the walked path, calls rotate(result).  The copy
\* is a stack object: it is kept at an address x of its own, the node the
\* rotation turns it into (r.n) at root', and tcall names the rotation and x.
Rotated(op, e, x, r) ==
  \E w \in {Wrap(r.heap, r.n)} :
    /\ nodes' = w.heap
    /\ root' = w.p
    /\ tcall' = [op |-> op, root |-> x.p, key |-> e[1],
                 value |-> e[2], n |-> tcall.n]
    /\ UNCHANGED <<inserted, iter, visited, icall>>
    /\ UNCHANGED avars

\* FixUp: if (right().red() && !left().red()) RotateLeft(), after
\* result.right_ = Wrap(right_->InsertImpl(...)) and the size update
RotateLeftStep ==
  /\ tcall.op \in {"none", "insert"}
  /\ tcall.n < MaxInserts
  /\ \E e \in ToTreeEntries : \E p \in WalkedPath(nodes, root, e[2]) :
       /\ comparator(nodes[p].value_, e[2])
       /\ \E sub \in {InsertImpl(nodes, nodes[p].right_, e[1], e[2])} :
          \E w \in {Wrap(sub.heap, sub.n)} :
          \E x \in {Wrap(w.heap, [nodes[p] EXCEPT
                       !.right_ = w.p,
                       !.size_ = w.heap[nodes[p].left_].size_ + 1
                                   + w.heap[w.p].size_])} :
            /\ red(x.heap, x.heap[x.p].right_)
            /\ ~red(x.heap, x.heap[x.p].left_)
            /\ Rotated("RotateLeft", e, x, RotateLeft(x.heap, x.heap[x.p]))

\* FixUp: if (left().red() && left().left().red()) RotateRight(), after
\* result.left_ = Wrap(left_->InsertImpl(...)) and the size update
RotateRightStep ==
  /\ tcall.op \in {"none", "insert"}
  /\ tcall.n < MaxInserts
  /\ \E e \in ToTreeEntries : \E p \in WalkedPath(nodes, root, e[2]) :
       /\ comparator(e[2], nodes[p].value_)
       /\ \E sub \in {InsertImpl(nodes, nodes[p].left_, e[1], e[2])} :
          \E w \in {Wrap(sub.heap, sub.n)} :
          \E x \in {Wrap(w.heap, [nodes[p] EXCEPT
                       !.left_ = w.p,
                       !.size_ = w.heap[w.p].size_ + 1
                                   + w.heap[nodes[p].right_].size_])} :
            /\ red(x.heap, x.heap[x.p].left_)
            /\ red(x.heap, x.heap[x.heap[x.p].left_].left_)
            /\ Rotated("RotateRight", e, x,
                       RotateRight(x.heap, x.heap[x.p]))

NextRot == RotBuild \/ RotateLeftStep \/ RotateRightStep

SpecRot == Init /\ [][NextRot]_vars

\* ================== a reader and a writer on one map =====================
\* A map M, an ArraySortedMap or an LlrbNode tree, is built by one thread and
\* handed to two threads.  The writer runs one M.insert or M.erase, one store
\* to shared storage at a time; the reader runs one find or one loop over M,
\* one iterator operation at a time.  map and root stay M throughout: what
\* the writer's call returns is writer.ret.

\* the values of the tree handed over, and the pairs inserted into it
ConcVals == 1..MaxConc
ConcEntries == {<<v, v>> : v \in ConcVals}

\* the elements of a set of numbers in ascending order
RECURSIVE Ascending(_)
Ascending(S) ==
  IF S = {} THEN <<>>
  ELSE LET x == CHOOSE y \in S : \A z \in S : y <= z
       IN <<x>> \o Ascending(S \ {x})

\* ArraySortedMap::insert, statement by statement: the stores
\* <<address, contents>> it makes, in program order, and the array_ of the
\* map it returns
insert_stores(heap, m, key, value) ==
  LET arr == heap[m]
      current_end == Len(arr)
      pos == LowerBound(arr, key)
      replacing_entry ==
        pos # current_end /\ ~key_comparator_(key, At(arr, pos).first)
  IN IF replacing_entry /\ value = At(arr, pos).second
       THEN [todo |-> <<>>, ret |-> m]
       ELSE
         LET copy == alloc(heap)
             copy0 == append(<<>>, Range(arr, 0, pos))
             copy1 == append(copy0, <<value_type(key, value)>>)
             copy2 == append(copy1,
                        IF replacing_entry THEN Range(arr, pos + 1, current_end)
                                           ELSE Range(arr, pos, current_end))
         IN [todo |-> << <<copy, copy0>>, <<copy, copy1>>, <<copy, copy2>> >>,
             ret |-> copy]

\* ArraySortedMap::erase, statement by statement
erase_stores(heap, m, key) ==
  LET arr == heap[m]
      current_end == Len(arr)
      pos == find(arr, key)
  IN IF pos = current_end THEN [todo |-> <<>>, ret |-> m]
     ELSE IF Len(arr) <= 1 THEN [todo |-> <<>>, ret |-> EmptyArray]
     ELSE
       LET copy == alloc(heap)
           copy0 == append(<<>>, Range(arr, 0, pos))
           copy1 == append(copy0, Range(arr, pos + 1, current_end))
       IN [todo |-> << <<copy, copy0>>, <<copy, copy1>> >>, ret |-> copy]

\* LlrbNode::insert: every node object it constructs or assigns to, one store
\* each; make_shared hands out the addresses in ascending order
node_insert_stores(heap, p, key, value) ==
  Bind(node_insert(heap, p, key, value), LAMBDA r :
  Bind(Ascending({q \in DOMAIN r.heap :
                    q \notin DOMAIN heap \/ r.heap[q] # heap[q]}),
       LAMBDA stored :
         [todo |-> [i \in 1..Len(stored) |-> <<stored[i], r.heap[stored[i]]>>],
          ret |-> r.p]))

\* M = ToMap(values), for the values of a set of keys
ConcToMap ==
  /\ writer.pc = "idle" /\ map = EmptyArray /\ root = Empty
  /\ \E S \in SUBSET Keys \ {{}} :
     \E s \in {ToMap([heap |-> arrays, result |-> EmptyArray,
                      m |-> EmptyArray], Ascending(S))} :
       /\ arrays' = release(s.heap, {EmptyArray, s.result})
       /\ map' = s.result
  /\ UNCHANGED <<acall, pcall, live_keys, aborted>>
  /\ UNCHANGED tvars

\* M = M->insert(v, v): one more entry of the tree that is handed over
ConcToTree ==
  /\ writer.pc = "idle" /\ map = EmptyArray
  /\ tcall.n < MaxConc
  /\ NodeInsertOf(ConcEntries)

\* what the reader starts with
StartedReader(op, key, len) ==
  [op |-> op, key |-> key, first |-> 0, len |-> len,
   cursor |-> [policy |-> "none", stack_ |-> <<>>, end_ |-> TRUE],
   seen |-> <<>>, overlapped |-> FALSE, pc |-> "run"]

\* the array map is handed over: the writer enters insert or erase, the
\* reader enters find(key) or a loop from begin() to end()
StartArray ==
  /\ writer.pc = "idle" /\ root = Empty
  /\ \E call \in {[op |-> "insert", key |-> k, value |-> v,
                   s |-> insert_stores(arrays, map, k, v)]
                    : k \in Keys, v \in Vals}
             \cup {[op |-> "erase", key |-> k, value |-> 0,
                    s |-> erase_stores(arrays, map, k)] : k \in Keys} :
       writer' = [op |-> call.op, key |-> call.key, value |-> call.value,
                  todo |-> call.s.todo, ret |-> call.s.ret, pc |-> "run"]
  /\ \/ reader' = StartedReader("iterate", 0, Len(arrays[map]))
     \/ \E key \in Probes :
          reader' = StartedReader("find", key, Len(arrays[map]))
  /\ published' = [arrays |-> arrays, nodes |-> nodes]
  /\ UNCHANGED <<arrays, map, acall, pcall, live_keys, aborted>>
  /\ UNCHANGED <<nodes, root, inserted, tcall, iter, visited, icall>>

\* the tree is handed over: the writer enters root->insert(v, v), the reader
\* a loop from Begin(root) to End(root)
StartTree ==
  /\ writer.pc = "idle" /\ map = EmptyArray
  /\ \E v \in 1..(MaxConc + 1) :
     \E s \in {node_insert_stores(nodes, root, v, v)} :
       writer' = [op |-> "node_insert", key |-> v, value |-> v,
                  todo |-> s.todo, ret |-> s.ret, pc |-> "run"]
  /\ reader' = StartedReader("loop", 0, 0)
  /\ published' = [arrays |-> arrays, nodes |-> nodes]
  /\ UNCHANGED <<arrays, map, acall, pcall, live_keys, aborted>>
  /\ UNCHANGED <<nodes, root, inserted, tcall, iter, visited, icall>>

\* the writer's next store
WriterStore ==
  /\ writer.pc = "run" /\ writer.todo # <<>>
  /\ LET store == Head(writer.todo)
     IN IF writer.op = "node_insert"
          THEN /\ nodes' = (store[1] :> store[2]) @@ nodes
               /\ UNCHANGED arrays
          ELSE /\ arrays' = (store[1] :> store[2]) @@ arrays
               /\ UNCHANGED nodes
  /\ writer' = [writer EXCEPT !.todo = Tail(@)]
  /\ UNCHANGED <<map, acall, pcall, live_keys, aborted>>
  /\ UNCHANGED <<root, inserted, tcall, iter, visited, icall>>
  /\ UNCHANGED <<reader, published>>

\* return wrap(copy), return *this, return the new root
WriterReturn ==
  /\ writer.pc = "run" /\ writer.todo = <<>>
  /\ writer' = [writer EXCEPT !.pc = "done"]
  /\ UNCHANGED <<arrays, map, acall, pcall, live_keys, aborted>>
  /\ UNCHANGED <<nodes, root, inserted, tcall, iter, visited, icall>>
  /\ UNCHANGED <<reader, published>>

\* the writer is between two of its stores
MidCall ==
  /\ writer.pc = "run" /\ writer.todo # <<>>
  /\ arrays # published.arrays \/ nodes # published.nodes

\* a step of the reader: r is the reader afterwards
Read(r) ==
  /\ reader' = [r EXCEPT !.overlapped = @ \/ MidCall]
  /\ UNCHANGED <<arrays, map, acall, pcall, live_keys, aborted>>
  /\ UNCHANGED <<nodes, root, inserted, tcall, iter, visited, icall>>
  /\ UNCHANGED <<writer, published>>

\* for (it = begin(); it != end(); ++it) read *it, on the array of M
ReadArray ==
  /\ reader.op = "iterate" /\ reader.pc = "run"
  /\ Read(IF reader.first # reader.len
            THEN [reader EXCEPT
                    !.seen = Append(@, At(arrays[map], reader.first)),
                    !.first = @ + 1]
            ELSE [reader EXCEPT !.pc = "done"])

\* find(key) on the array of M: one turn of the loop of std::lower_bound,
\* and after the loop the test of what it found
ReadFind ==
  /\ reader.op = "find" /\ reader.pc = "run"
  /\ Read(IF reader.len > 0
            THEN LET half == reader.len \div 2
                     middle == reader.first + half
                 IN IF key_comparator_(At(arrays[map], middle).first,
                                       reader.key)
                      THEN [reader EXCEPT !.first = middle + 1,
                                          !.len = @ - half - 1]
                      ELSE [reader EXCEPT !.len = half]
            ELSE LET arr == arrays[map]
                     lb == reader.first
                 IN [reader EXCEPT
                       !.seen = IF /\ lb # Len(arr)
                                   /\ ~key_comparator_(reader.key,
                                                       At(arr, lb).first)
                                  THEN <<At(arr, lb)>> ELSE <<>>,
                       !.pc = "done"])

\* for (it = Begin(root); it != End(root); ++it) read *it, on the tree M
ReadTree ==
  /\ reader.op = "loop" /\ reader.pc = "run"
  /\ Read(IF reader.cursor.policy = "none"
            THEN [reader EXCEPT
                    !.cursor = Begin(nodes, "ForwardPolicy", root)]
          ELSE IF ~IterEq(reader.cursor, End(nodes, "ForwardPolicy", root))
            THEN [reader EXCEPT
                    !.seen = Append(@, SubSeq(Deref(nodes, reader.cursor),
                                              1, 2)),
                    !.cursor = PreIncrement(nodes, reader.cursor)]
          ELSE [reader EXCEPT !.pc = "done"])

NextConc ==
  \/ ConcToMap
  \/ ConcToTree
  \/ StartArray
  \/ StartTree
  \/ WriterStore
  \/ WriterReturn
  \/ ReadArray
  \/ ReadFind
  \/ ReadTree

SpecConc == Init /\ [][NextConc]_vars

\* ============ ArraySortedMap from an initializer list ====================

\* the initializer lists: up to MaxKey entries with distinct keys, in any
\* order
InitializerLists ==
  {s \in UNION {[1..n -> Keys \X Vals] : n \in 1..MaxKey} :
     \A i, j \in 1..Len(s) : i # j => s[i][1] # s[j][1]}

\* ArraySortedMap(std::initializer_list<value_type> entries):
\* array_(std::make_shared<array_type>(entries.begin(), entries.end()))
ListCtor ==
  /\ acall.op = "none"
  /\ \E entries \in InitializerLists :
       LET src == [i \in 1..Len(entries) |->
                     value_type(entries[i][1], entries[i][2])]
           p == alloc(arrays)
       IN /\ aborted' = ~append_assert(<<>>, src)
          /\ arrays' = IF append_assert(<<>>, src)
                         THEN (p :> append(<<>>, src)) @@ arrays
                         ELSE arrays
          /\ map' = IF append_assert(<<>>, src) THEN p ELSE map
          /\ acall' = [op |-> "ctor", m |-> map, key |-> entries[1][1],
                       value |-> entries[1][2],
                       ret |-> IF append_assert(<<>>, src) THEN p
                                                           ELSE nullptr]
          /\ live_keys' = {entries[i][1] : i \in 1..Len(entries)}
  /\ pcall' = [op |-> acall.op, key |-> acall.key]
  /\ UNCHANGED tvars

\* it = map.find(key) on the map the constructor made
ListFind ==
  /\ ~aborted /\ acall.op # "none"
  /\ \E key \in Probes :
       acall' = [op |-> "find", m |-> map, key |-> key, value |-> 0,
                 ret |-> find(arrays[map], key)]
  /\ pcall' = [op |-> acall.op, key |-> acall.key]
  /\ UNCHANGED <<arrays, map, live_keys, aborted>>
  /\ UNCHANGED tvars

NextList == ListCtor \/ ListFind

SpecList == Init /\ [][NextList]_vars

\* ============ a cursor stepped freely with ++ and -- =====================

\* ToTree(values): the tree the cursor is made on
CursorToTree ==
  /\ iter.policy = "none"
  /\ NodeInsertOf(ToTreeEntries)

\* c = Begin(root), End(root) or LowerBound(root, key, comparator) on a
\* tree that is not empty
CursorStart ==
  /\ iter.policy = "none" /\ ~empty(nodes, root)
  /\ \E policy \in Policies :
       \/ iter' = Begin(nodes, policy, root)
            /\ icall' = [op |-> "Begin", key |-> 0]
       \/ iter' = End(nodes, policy, root)
            /\ icall' = [op |-> "End", key |-> 0]
       \/ \E key \in TreeProbes :
            /\ iter' = IterLowerBound(nodes, policy, root, key)
            /\ icall' = [op |-> "LowerBound", key |-> key]
  /\ UNCHANGED <<nodes, root, inserted, tcall, visited>>
  /\ UNCHANGED avars

\* stack_.top() is defined for the cursor
HasTop(i) == i.end_ \/ i.stack_ # <<>>

\* ++c
CursorIncrement ==
  /\ iter.policy \in Policies /\ HasTop(iter)
  /\ iter' = PreIncrement(nodes, iter)
  /\ icall' = [op |-> "++", key |-> 0]
  /\ UNCHANGED <<nodes, root, inserted, tcall, visited>>
  /\ UNCHANGED avars

\* --c
CursorDecrement ==
  /\ iter.policy \in Policies /\ HasTop(iter)
  /\ iter' = PreDecrement(nodes, iter)
  /\ icall' = [op |-> "--", key |-> 0]
  /\ UNCHANGED <<nodes, root, inserted, tcall, visited>>
  /\ UNCHANGED avars

NextCursor ==
  \/ CursorToTree
  \/ CursorStart
  \/ CursorIncrement
  \/ CursorDecrement

SpecCursor == Init /\ [][NextCursor]_vars

\* ============ LlrbNodeIterator, the revision with a sentinel =============
\* This revision has no end_ and no Policy: the cursor is stack_ alone, with
\* Empty() pushed first by Begin and last by End.  The cursor is iter with
\* policy "Sentinel"; its end_ is not used.  While operator++ is in its loop
\* icall is [op |-> "loop", key |-> the local `node`].

\* while (!node->empty()) { stack.push(node); node = node->left() / right(); }
RECURSIVE Spine(_, _, _, _)
Spine(heap, side, stack, node) ==
  IF empty(heap, node) THEN stack
  ELSE Spine(heap, side, Append(stack, node),
             IF side = "left" THEN heap[node].left_ ELSE heap[node].right_)

\* Begin of the sentinel revision
SentinelBegin(heap, node) ==
  [policy |-> "Sentinel", stack_ |-> Spine(heap, "left", <<Empty>>, node),
   end_ |-> FALSE]

\* End of the sentinel revision
SentinelEnd(heap, node) ==
  [policy |-> "Sentinel",
   stack_ |-> Append(Spine(heap, "right", <<>>, node), Empty),
   end_ |-> FALSE]

\* top() and get() of the sentinel revision
SentinelTop(i) == i.stack_[Len(i.stack_)]

\* the iterator is between two calls
AtRest == icall.op \in {"Begin", "End", "++"}

\* ToTree(values): root = root.insert(value, value)
SentinelToTree ==
  /\ iter.policy = "none"
  /\ NodeInsertOf(ToTreeEntries)

\* begin = Begin(node)
SentinelIterBegin ==
  /\ iter.policy = "none"
  /\ iter' = SentinelBegin(nodes, root)
  /\ icall' = [op |-> "Begin", key |-> 0]
  /\ UNCHANGED <<nodes, root, inserted, tcall, visited>>
  /\ UNCHANGED avars

\* end = End(node)
SentinelIterEnd ==
  /\ iter.policy = "none"
  /\ iter' = SentinelEnd(nodes, root)
  /\ icall' = [op |-> "End", key |-> 0]
  /\ UNCHANGED <<nodes, root, inserted, tcall, visited>>
  /\ UNCHANGED avars

\* operator++ of the sentinel revision, up to the first test of its loop.
\* When the node popped is Empty(), node = node->right() is a null pointer
\* and node->empty() reads through it: the process dies, or the read yields
\* some size_ and the loop is left or entered.
SentinelIncrement ==
  /\ iter.policy = "Sentinel" /\ AtRest
  /\ IF Len(iter.stack_) <= 1
       THEN /\ iter' = iter
            /\ icall' = [op |-> "++", key |-> 0]
       ELSE LET node == nodes[SentinelTop(iter)].right_
            IN /\ iter' = [iter EXCEPT
                             !.stack_ = SubSeq(@, 1, Len(@) - 1)]
               /\ IF node = nullptr
                    THEN \E outcome \in {"SIGSEGV", "++", "loop"} :
                           icall' = [op |-> outcome, key |-> node]
                  ELSE IF empty(nodes, node)
                    THEN icall' = [op |-> "++", key |-> 0]
                  ELSE icall' = [op |-> "loop", key |-> node]
  /\ UNCHANGED <<nodes, root, inserted, tcall, visited>>
  /\ UNCHANGED avars

\* the body of the loop, stack_.push(node), and the next test: node is not
\* assigned to, so the test gives what it gave.  A push that cannot get
\* memory throws std::bad_alloc.
SentinelPush ==
  /\ icall.op = "loop"
  /\ IF Len(iter.stack_) < MaxStack
       THEN /\ iter' = [iter EXCEPT !.stack_ = Append(@, icall.key)]
            /\ icall' = icall
       ELSE /\ iter' = iter
            /\ icall' = [icall EXCEPT !.op = "bad_alloc"]
  /\ UNCHANGED <<nodes, root, inserted, tcall, visited>>
  /\ UNCHANGED avars

NextSentinel ==
  \/ SentinelToTree
  \/ SentinelIterBegin
  \/ SentinelIterEnd
  \/ SentinelIncrement
  \/ SentinelPush

SpecSentinel == Init /\ [][NextSentinel]_vars

\* a thread inside operator++ keeps running
SpecSentinelFair == SpecSentinel /\ WF_vars(SentinelPush)

\* ============================ Properties =================================

\* C1: ArraySortedMap::insert and ::erase leave the receiver M as it was: no
\* published array changes, and M's size, entry sequence and find(x) for
\* every key x are the same after the call as before it.
C1_Persistence ==
  [][ /\ \A p \in DOMAIN arrays \cap DOMAIN arrays' : arrays'[p] = arrays[p]
      /\ map \in DOMAIN arrays'
      /\ Len(arrays'[map]) = Len(arrays[map])
      /\ \A i \in 1..Len(arrays[map]) : arrays'[map][i] = arrays[map][i]
      /\ \A x \in 0..(MaxKey + 1) :
           find(arrays'[map], x) = find(arrays[map], x) ]_vars

\* an erase of a present key from a three-entry map returned a new array
C1_Witness ==
  /\ acall.op = "erase"
  /\ map # acall.m
  /\ Len(arrays[acall.m]) = 3
  /\ Len(arrays[map]) = 2

\* C3: every ArraySortedMap reachable from the empty map by insert and erase
\* holds its entries in strictly ascending key order.
C3_StrictlyAscending ==
  \A p \in DOMAIN arrays :
    \A i \in 1..(Len(arrays[p]) - 1) :
      key_comparator_(arrays[p][i].first, arrays[p][i + 1].first)

\* an insert replaced the middle entry of a three-entry map
C3_Witness ==
  /\ acall.op = "insert"
  /\ acall.key = 2
  /\ map # acall.m
  /\ Len(arrays[acall.m]) = 3
  /\ Len(arrays[map]) = 3

\* ---- helpers over trees ----

\* the non-empty nodes reachable from p
Live(heap, p) == {q \in Reach(heap, p) : ~empty(heap, q)}

\* in-order sequence of the (key, value) entries below p
RECURSIVE InOrder(_, _)
InOrder(heap, p) ==
  IF empty(heap, p) THEN <<>>
  ELSE InOrder(heap, heap[p].left_)
         \o << <<heap[p].key_, heap[p].value_>> >>
         \o InOrder(heap, heap[p].right_)

\* the numbers of black nodes met on the paths from p to an empty leaf
RECURSIVE BlackCounts(_, _)
BlackCounts(heap, p) ==
  IF empty(heap, p) THEN {0}
  ELSE LET b == IF red(heap, p) THEN 0 ELSE 1
       IN {c + b : c \in BlackCounts(heap, heap[p].left_)
                          \cup BlackCounts(heap, heap[p].right_)}

\* the keys stored below p
KeysOf(heap, p) == {heap[q].key_ : q \in Live(heap, p)}

\* C2: LlrbNode::insert changes no field of any node that existed before the
\* call, so the receiver's in-order contents are the same after it.
C2_NodesImmutable ==
  [][ /\ \A p \in DOMAIN nodes \cap DOMAIN nodes' : nodes'[p] = nodes[p]
      /\ Reach(nodes, root) \subseteq DOMAIN nodes'
      /\ \A p \in Reach(nodes, root) : nodes'[p] = nodes[p]
      /\ InOrder(nodes', root) = InOrder(nodes, root) ]_vars

\* an insert into a tree of two or more nodes changed the value at the root
C2_Witness ==
  /\ tcall.op = "insert"
  /\ nodes[tcall.root].size_ >= 2
  /\ nodes[root].value_ # nodes[tcall.root].value_
  /\ nodes[root].size_ = nodes[tcall.root].size_ + 1

\* C4: in every tree returned by LlrbNode::insert no red node has a red child.
C4_NoRedRed ==
  \A p \in Live(nodes, root) :
    red(nodes, p) => ~red(nodes, nodes[p].left_) /\ ~red(nodes, nodes[p].right_)

\* a tree of four nodes with a red node below a black child of the root
C4_Witness ==
  /\ nodes[root].size_ = 4
  /\ \E p \in Live(nodes, root) \ {root} :
       ~red(nodes, p) /\ red(nodes, nodes[p].left_)

\* C5: in every tree returned by LlrbNode::insert every path from the root to
\* an empty leaf passes through the same number of black nodes.
C5_BlackBalance ==
  \A p \in Live(nodes, root) : Cardinality(BlackCounts(nodes, p)) = 1

\* a tree of four nodes, one of them red, with two black nodes on every path
C5_Witness ==
  /\ nodes[root].size_ = 4
  /\ \E p \in Live(nodes, root) : red(nodes, p)
  /\ BlackCounts(nodes, root) = {2}

\* C6: the node returned by the public LlrbNode::insert is black, for every
\* receiver (Empty() included) and every key and value.
C6_RootBlack ==
  tcall.op = "insert" => nodes[root].red_ = Black /\ ~empty(nodes, root)

\* an insert into Empty(), whose InsertImpl result is a red node
C6_Witness ==
  /\ tcall.op = "insert"
  /\ tcall.root = Empty
  /\ nodes[root].size_ = 1

\* C7: every non-empty node reachable from the root has
\* size() = 1 + left.size() + right.size(), and the empty node has size 0.
C7_SizeBookkeeping ==
  /\ nodes[Empty].size_ = 0
  /\ \A p \in Live(nodes, root) :
       nodes[p].size_ =
         1 + nodes[nodes[p].left_].size_ + nodes[nodes[p].right_].size_

\* a tree of four nodes whose root has a child with a child of its own
C7_Witness ==
  /\ nodes[root].size_ = 4
  /\ \E p \in Live(nodes, root) : p # root /\ nodes[p].size_ = 2

\* C8: root->size() equals the number of distinct keys inserted, whatever
\* the values are.
C8_SizeIsDistinctKeys ==
  nodes[root].size_ = Cardinality(inserted)

\* C9: the tree is a binary search tree on keys, no key occurs in two nodes,
\* and the keys stored are the keys inserted.
C9_SearchTreeOnKeys ==
  /\ \A p \in Live(nodes, root) :
       /\ \A q \in Live(nodes, nodes[p].left_) :
            comparator(nodes[q].key_, nodes[p].key_)
       /\ \A q \in Live(nodes, nodes[p].right_) :
            comparator(nodes[p].key_, nodes[q].key_)
  /\ \A p, q \in Live(nodes, root) : nodes[p].key_ = nodes[q].key_ => p = q
  /\ KeysOf(nodes, root) = inserted

\* C10: inserting (k, v2) into a tree that holds k with another value v1
\* returns a tree of the same size in which the node with key k holds v2.
C10_ValueOnlyUpdate ==
  [][ (/\ tcall'.op = "insert"
       /\ \E p \in Live(nodes, root) :
            nodes[p].key_ = tcall'.key /\ nodes[p].value_ # tcall'.value)
      => /\ nodes'[root'].size_ = nodes[root].size_
         /\ \A q \in Live(nodes', root') :
              nodes'[q].key_ = tcall'.key => nodes'[q].value_ = tcall'.value
         /\ KeysOf(nodes', root') = KeysOf(nodes, root) ]_vars

\* ---- helpers over arrays ----

\* the keys of the entries of an array
KeySet(arr) == {arr[i].first : i \in 1..Len(arr)}

\* what find(key) points to: <<the entry>>, or << >> for end()
Found(arr, key) ==
  IF find(arr, key) = Len(arr) THEN <<>> ELSE <<At(arr, find(arr, key))>>

\* C12: M.insert(k, v).find(k) points to the entry (k, v), also when M held k
\* with another value, which is then no longer in the map; find(x) for every
\* other key x gives the same result as in M.
C12_InsertThenFind ==
  (acall.op = "insert" /\ ~aborted) =>
    LET M == arrays[acall.m]
        N == arrays[map]
    IN /\ Found(N, acall.key) = <<value_type(acall.key, acall.value)>>
       /\ \A i \in 1..Len(N) :
            N[i].first = acall.key => N[i].second = acall.value
       /\ \A x \in Probes \ {acall.key} : Found(N, x) = Found(M, x)

\* an insert replaced the value of the middle key of a three-entry map
C12_Witness ==
  /\ acall.op = "insert"
  /\ Len(arrays[acall.m]) = 3
  /\ Found(arrays[acall.m], acall.key) \notin
       {<<>>, <<value_type(acall.key, acall.value)>>}
  /\ find(arrays[map], acall.key) = 1
  /\ Found(arrays[map], acall.key) = <<value_type(acall.key, acall.value)>>

\* C13: M.insert(k, v).erase(k) has the entry sequence of M.erase(k): M's own
\* when k was absent from M, and M's without the entry of k, one entry less,
\* when k was present.
C13_InsertThenErase ==
  [][ (/\ acall.op = "insert"
       /\ ~aborted
       /\ acall'.op = "erase"
       /\ acall'.key = acall.key)
      => LET M == arrays[acall.m]
             k == acall.key
             e == erase(arrays, acall.m, k)
             N == arrays'[map']
         IN /\ ~aborted'
            /\ e.ok
            /\ N = e.heap[e.ret]
            /\ k \notin KeySet(M) => N = M
            /\ k \in KeySet(M) => Len(N) = Len(M) - 1 /\ N = Without(M, k) ]_vars

\* insert(k, v) on a map of three entries, then erase(k), left two entries
C13_Witness ==
  /\ acall.op = "erase"
  /\ pcall.op = "insert"
  /\ pcall.key = acall.key
  /\ Len(arrays[acall.m]) = 3
  /\ Len(arrays[map]) = 2

\* C14: when M already holds key k with a value equal to v, M.insert(k, v)
\* allocates no array and returns a map on M's array, so find(k) gives the
\* same position in the same storage on both.
C14_ReinsertShares ==
  [][ (/\ acall'.op = "insert"
       /\ Found(arrays[map], acall'.key)
            = <<value_type(acall'.key, acall'.value)>>)
      => /\ ~aborted'
         /\ acall'.ret = map
         /\ map' = map
         /\ DOMAIN arrays' \subseteq DOMAIN arrays
         /\ arrays'[map'] = arrays[map]
         /\ find(arrays'[map'], acall'.key) = find(arrays[map], acall'.key) ]_vars

\* an insert of the pair a three-entry map already held as its last entry
C14_Witness ==
  /\ acall.op = "insert"
  /\ acall.ret = acall.m
  /\ map = acall.m
  /\ Len(arrays[map]) = 3
  /\ find(arrays[map], acall.key) = 2
  /\ Found(arrays[map], acall.key) = <<value_type(acall.key, acall.value)>>

\* C15: on a map M of kFixedSize entries, M.insert(k, v) with k not a key of
\* M fails the assertion new_size <= fixed_size, wherever k would go (before,
\* between or after the keys present); no map is returned, no array is
\* allocated and M is as it was.
C15_FullInsertAsserts ==
  [][ (/\ acall'.op = "insert"
       /\ Len(arrays[map]) = kFixedSize
       /\ acall'.key \notin KeySet(arrays[map]))
      => /\ aborted'
         /\ acall'.ret = nullptr
         /\ map' = map
         /\ DOMAIN arrays' \subseteq DOMAIN arrays
         /\ arrays'[map] = arrays[map] ]_vars

\* the insert of a key lying between two keys of a full map has failed
C15_Witness ==
  /\ aborted
  /\ acall.op = "insert"
  /\ acall.key = kFixedSize
  /\ Len(arrays[map]) = kFixedSize
  /\ LowerBound(arrays[map], acall.key) \in 1..(kFixedSize - 1)

\* C16: on a map M of kFixedSize entries, M.insert(k, v) with k a key of M
\* and v another value than M holds for k passes every assertion and returns
\* a map of kFixedSize entries in which k maps to v.
C16_FullReplaceSucceeds ==
  [][ (/\ acall'.op = "insert"
       /\ Len(arrays[map]) = kFixedSize
       /\ acall'.key \in KeySet(arrays[map])
       /\ Found(arrays[map], acall'.key)
            # <<value_type(acall'.key, acall'.value)>>)
      => /\ ~aborted'
         /\ acall'.ret = map'
         /\ map' # map
         /\ Len(arrays'[map']) = kFixedSize
         /\ Found(arrays'[map'], acall'.key)
              = <<value_type(acall'.key, acall'.value)>> ]_vars

\* the value of a key in the middle of a full map was replaced
C16_Witness ==
  /\ ~aborted
  /\ acall.op = "insert"
  /\ acall.key = kFixedSize + 1
  /\ map # acall.m
  /\ Len(arrays[acall.m]) = kFixedSize
  /\ Len(arrays[map]) = kFixedSize
  /\ Found(arrays[acall.m], acall.key)
       # <<value_type(acall.key, acall.value)>>
  /\ Found(arrays[map], acall.key) = <<value_type(acall.key, acall.value)>>

\* C17: M.erase(k) with k not a key of M, the empty M included, fails no
\* assertion and returns a map on M's own array: no array is allocated and
\* size and entries are M's.
C17_EraseAbsentShares ==
  [][ (/\ acall'.op = "erase"
       /\ acall'.key \notin KeySet(arrays[map]))
      => /\ ~aborted'
         /\ acall'.ret = map
         /\ map' = map
         /\ DOMAIN arrays' \subseteq DOMAIN arrays
         /\ Len(arrays'[map']) = Len(arrays[map])
         /\ arrays'[map'] = arrays[map] ]_vars

\* an erase of a key lying between the two keys of a map returned the map
C17_Witness ==
  /\ acall.op = "erase"
  /\ acall.ret = acall.m
  /\ map = acall.m
  /\ Len(arrays[map]) = 2
  /\ LowerBound(arrays[map], acall.key) = 1
  /\ acall.key \notin KeySet(arrays[map])

\* C18: M.erase(k) on a map M of two or more entries with k a key of M, in
\* first, middle or last position, returns M's entry sequence without the
\* entry of k: one entry less, find(k) is end(), and every other entry keeps
\* key, value and relative order.
C18_ErasePresent ==
  [][ (/\ acall'.op = "erase"
       /\ Len(arrays[map]) >= 2
       /\ acall'.key \in KeySet(arrays[map]))
      => LET M == arrays[map]
             N == arrays'[map']
             pos == find(M, acall'.key)
         IN /\ ~aborted'
            /\ Len(N) = Len(M) - 1
            /\ Found(N, acall'.key) = <<>>
            /\ N = Range(M, 0, pos) \o Range(M, pos + 1, Len(M))
            /\ \A x \in Probes \ {acall'.key} : Found(N, x) = Found(M, x) ]_vars

\* an erase removed the middle entry of a three-entry map
C18_Witness ==
  /\ acall.op = "erase"
  /\ Len(arrays[acall.m]) = 3
  /\ find(arrays[acall.m], acall.key) = 1
  /\ Len(arrays[map]) = 2
  /\ acall.key \notin KeySet(arrays[map])

\* C19: after any sequence of insert and erase calls within the capacity,
\* size() is the number of distinct keys inserted and not erased since their
\* last insert; once every inserted key has been erased, size() is 0 and
\* empty() is true.
C19_SizeCountsLiveKeys ==
  ~aborted =>
    /\ map_size(arrays[map]) = Cardinality(live_keys)
    /\ KeySet(arrays[map]) = live_keys
    /\ live_keys = {} => map_size(arrays[map]) = 0 /\ arrays[map] = <<>>

\* every key of the model was inserted, and then the last of them erased
C19_Witness ==
  /\ acall.op = "erase"
  /\ map_size(arrays[acall.m]) = 1
  /\ acall.key \in KeySet(arrays[acall.m])
  /\ live_keys = {}
  /\ map_size(arrays[map]) = 0

\* C20: M.find_index(k) is the zero-based position of k in ascending key
\* order when k is a key of M, and npos = 2^32 - 1 (both 16-bit halves all
\* ones) when it is not; never npos for a key present, never an index for a
\* key absent.
C20_FindIndex ==
  acall.op = "find_index" =>
    LET M == arrays[acall.m]
        ordinal == Cardinality({x \in KeySet(M) : comparator(x, acall.key)})
    IN /\ npos = [hi |-> 2^16 - 1, lo |-> 2^16 - 1]
       /\ acall.key \in KeySet(M) =>
            /\ acall.ret = [hi |-> 0, lo |-> ordinal]
            /\ acall.ret # npos
            /\ M[acall.ret.lo + 1].first = acall.key
       /\ acall.key \notin KeySet(M) =>
            /\ acall.ret = npos
            /\ \A i \in 0..map_size(M) : acall.ret # [hi |-> 0, lo |-> i]

\* find_index gave the index of the last key of a three-entry map
C20_Witness ==
  /\ acall.op = "find_index"
  /\ map_size(arrays[acall.m]) = 3
  /\ acall.key \in KeySet(arrays[acall.m])
  /\ acall.ret = [hi |-> 0, lo |-> 2]

\* C11: the loop from Begin(root) with ++ until End(root) visits the nodes in
\* strictly increasing key order with the forward policy and in strictly
\* decreasing key order with the reverse policy.
C11_CursorOrder ==
  /\ iter.policy = "ForwardPolicy" =>
       \A i \in 1..(Len(visited) - 1) :
         comparator(visited[i][1], visited[i + 1][1])
  /\ iter.policy = "ReversePolicy" =>
       \A i \in 1..(Len(visited) - 1) :
         comparator(visited[i + 1][1], visited[i][1])

\* C21: on the empty tree Begin(root) and End(root) are equal and both
\* dereference to the canonical Empty() node; on every non-empty tree
\* Begin(root) differs from End(root), Begin dereferences to a non-empty node
\* and End to the canonical Empty() node.  For both policies.
C21_BeginEnd ==
  /\ \A policy \in Policies :
       LET b == Begin(nodes, policy, root)
           e == End(nodes, policy, root)
       IN /\ top(e) = Empty
          /\ empty(nodes, root) => IterEq(b, e) /\ top(b) = Empty
          /\ ~empty(nodes, root) =>
               /\ ~IterEq(b, e)
               /\ top(b) # Empty
               /\ ~empty(nodes, top(b))
  /\ icall.op = "Begin" => iter = Begin(nodes, iter.policy, root)

\* Begin was called on a tree of three or more nodes
C21_Witness ==
  /\ icall.op = "Begin"
  /\ nodes[root].size_ >= 3
  /\ ~iter.end_
  /\ Len(iter.stack_) >= 2
  /\ ~IterEq(iter, End(nodes, iter.policy, root))

\* C22: on a tree of n nodes the cursor started at Begin(root) equals End(root)
\* after exactly n applications of ++ and not before, and the n nodes
\* dereferenced on the way are pairwise distinct and are the nodes of the tree.
C22_IncrementCount ==
  icall.op \in {"Begin", "++"} =>
    LET n == nodes[root].size_
        seen == {visited[j][3] : j \in 1..Len(visited)}
    IN /\ Len(visited) <= n
       /\ IterEq(iter, End(nodes, iter.policy, root)) <=> Len(visited) = n
       /\ \A j, k \in 1..Len(visited) : visited[j][3] = visited[k][3] => j = k
       /\ seen \subseteq Live(nodes, root)
       /\ Len(visited) = n => seen = Live(nodes, root)

\* the fourth ++ on a tree of four nodes brought the cursor to End(root)
C22_Witness ==
  /\ icall.op = "++"
  /\ nodes[root].size_ = 4
  /\ Len(visited) = 4
  /\ iter.end_
  /\ IterEq(iter, End(nodes, iter.policy, root))

\* C23: on a tree of n nodes built by inserting keys with value equal to key,
\* n applications of -- to the forward cursor End(root) dereference every
\* entry once, in strictly descending key order, each node's key() equal to
\* its value().
C23_DecrementOrder ==
  (icall.op \in {"End", "--"} /\ iter.policy = "ForwardPolicy") =>
    /\ \A j \in 1..(Len(visited) - 1) :
         comparator(visited[j + 1][1], visited[j][1])
    /\ \A j \in 1..Len(visited) : visited[j][1] = visited[j][2]
    /\ \A j, k \in 1..Len(visited) : visited[j][3] = visited[k][3] => j = k
    /\ Len(visited) = nodes[root].size_ =>
         {visited[j][3] : j \in 1..Len(visited)} = Live(nodes, root)

\* C24: keys_from(x) on a tree-backed map yields, in ascending order, exactly
\* the keys of the map that are greater than or equal to x.
C24_KeysFrom ==
  icall.op \in {"LowerBound", "keys_from"} =>
    /\ \A j \in 1..Len(visited) : ~comparator(visited[j][1], icall.key)
    /\ \A j \in 1..(Len(visited) - 1) :
         comparator(visited[j][1], visited[j + 1][1])
    /\ IterEq(iter, End(nodes, "ForwardPolicy", root)) =>
         {visited[j][1] : j \in 1..Len(visited)}
           = {k \in inserted : ~comparator(k, icall.key)}

\* C25: erase(k) on a tree-backed map that contains k returns a map whose
\* size is one less than the receiver's, and once every key has been erased
\* the size is 0.
C25_TreeEraseShrinks ==
  tcall.op = "erase" =>
    /\ tcall.key \in KeysOf(nodes, tcall.root) =>
         nodes[root].size_ = nodes[tcall.root].size_ - 1
    /\ inserted = {} => nodes[root].size_ = 0

\* C26: TreeSortedMap::insert(k, v) returns a map whose root is the result of
\* the node-level insert of (k, v) into the receiver's root: black, holding
\* the same entries in the same order.
C26_TreeMapInsert ==
  tcall.op = "map_insert" =>
    /\ root # nullptr
    /\ ~red(nodes, root)
    /\ \E r \in {node_insert(nodes, tcall.root, tcall.key, tcall.value)} :
         InOrder(nodes, root) = InOrder(r.heap, r.p)

\* C28: in every tree returned by LlrbNode::insert no node has a red right
\* child, the root included: red links lean left.
C28_RedLeansLeft ==
  \A p \in Live(nodes, root) : ~red(nodes, nodes[p].right_)

\* a tree of four nodes with a red link, which hangs to the left of the
\* root's right child
C28_Witness ==
  /\ tcall.op = "insert"
  /\ nodes[root].size_ = 4
  /\ red(nodes, nodes[nodes[root].right_].left_)
  /\ C28_RedLeansLeft

\* the elements of a sequence as a bag
SeqBag(s) ==
  [e \in {s[i] : i \in 1..Len(s)}
     |-> Cardinality({i \in 1..Len(s) : s[i] = e})]

\* the entries below p as a bag
EntryBag(heap, p) == SeqBag(InOrder(heap, p))

\* C29: a left rotation at X with red right child R gives a node with R's key
\* and value and X's colour, whose left child is red, carries X's key and
\* value and has the children (X.left, R.left), and whose right child is
\* R.right; the entries of the subtree are the same bag before and after.
\* The right rotation is the mirror image.
C29_Rotation ==
  /\ tcall.op = "RotateLeft" =>
       LET X == nodes[tcall.root]
           R == nodes[X.right_]
           N == nodes[root]
           D == nodes[N.left_]
       IN /\ N.key_ = R.key_ /\ N.value_ = R.value_ /\ N.red_ = X.red_
          /\ D.red_ = Red /\ D.key_ = X.key_ /\ D.value_ = X.value_
          /\ D.left_ = X.left_ /\ D.right_ = R.left_
          /\ N.right_ = R.right_
          /\ EntryBag(nodes, root) = EntryBag(nodes, tcall.root)
  /\ tcall.op = "RotateRight" =>
       LET X == nodes[tcall.root]
           R == nodes[X.left_]
           N == nodes[root]
           D == nodes[N.right_]
       IN /\ N.key_ = R.key_ /\ N.value_ = R.value_ /\ N.red_ = X.red_
          /\ D.red_ = Red /\ D.key_ = X.key_ /\ D.value_ = X.value_
          /\ D.left_ = R.right_ /\ D.right_ = X.right_
          /\ N.left_ = R.left_
          /\ EntryBag(nodes, root) = EntryBag(nodes, tcall.root)

\* the nodes of the receiver (tcall.root) that the last insert did not walk
OffPath ==
  Live(nodes, tcall.root) \ WalkedPath(nodes, tcall.root, tcall.value)

\* C30 as stated: after an insert of a key not yet in tree T, every node of T
\* off the walked path is, by identity, a node of the resulting tree.
C30_PathCopying ==
  (tcall.op = "insert" /\ tcall.key \notin KeysOf(nodes, tcall.root)) =>
    OffPath \subseteq Reach(nodes, root)

\* C30 amended: after an insert of a key not yet in tree T, every node of T
\* off the walked path is by identity a node of the resulting tree, or it is
\* a child of a node on the path and the resulting tree holds in its place a
\* new node equal to it in every field but the colour, which is the opposite
\* one (the copy a colour flip makes); its subtrees are shared by identity.
C30_PathCopyingButFlips ==
  (tcall.op = "insert" /\ tcall.key \notin KeysOf(nodes, tcall.root)) =>
    \A q \in OffPath :
      \/ q \in Reach(nodes, root)
      \/ /\ \E x \in WalkedPath(nodes, tcall.root, tcall.value) :
              q \in {nodes[x].left_, nodes[x].right_}
         /\ \E c \in Reach(nodes, root) \ Reach(nodes, tcall.root) :
              nodes[c] = [nodes[q] EXCEPT !.red_ = OppositeColor(@)]

\* an insert of a new key whose colour flip replaced the red sibling of the
\* new leaf by a black copy, off the walked path
C30_Witness ==
  /\ tcall.op = "insert"
  /\ tcall.key \notin KeysOf(nodes, tcall.root)
  /\ \E q \in OffPath :
       /\ q \notin Reach(nodes, root)
       /\ red(nodes, q)
       /\ \E c \in Reach(nodes, root) \ Reach(nodes, tcall.root) :
            nodes[c] = [nodes[q] EXCEPT !.red_ = Black]

\* C27: whatever the interleaving of the writer's stores with the reader's
\* steps, no object that was published changes, so the reader reads exactly
\* the contents M had when it was handed over: the entries of the array in
\* order, the entry find(key) points to, the entries of the tree once each.
C27_ReaderSeesM ==
  /\ \A p \in DOMAIN published.arrays :
       p \in DOMAIN arrays /\ arrays[p] = published.arrays[p]
  /\ \A p \in DOMAIN published.nodes :
       p \in DOMAIN nodes /\ nodes[p] = published.nodes[p]
  /\ reader.op = "iterate" =>
       /\ reader.seen = SubSeq(published.arrays[map], 1, Len(reader.seen))
       /\ reader.pc = "done" => reader.seen = published.arrays[map]
  /\ (reader.op = "find" /\ reader.pc = "done") =>
       reader.seen = Found(published.arrays[map], reader.key)
  /\ reader.op = "loop" =>
       LET read == SeqBag(reader.seen)
           held == EntryBag(published.nodes, root)
       IN /\ \A e \in DOMAIN read : e \in DOMAIN held /\ read[e] <= held[e]
          /\ reader.pc = "done" => read = held

\* a reader that has read M to its end, with steps taken between two stores
\* of a writer that built and returned another map
C27_Witness ==
  /\ reader.pc = "done" /\ reader.overlapped
  /\ Len(reader.seen) >= 2
  /\ writer.pc = "done" /\ writer.ret \notin {map, root}
  /\ C27_ReaderSeesM

\* C31: three distinct values inserted with key equal to value, in any
\* order, give a root with the median value, the smallest value to its left
\* and the largest to its right, all three black; two inserts give a black
\* root with a red left child and the empty node, black, as right child.
C31_ThreeValues ==
  LET s == Ascending(inserted)
      left == nodes[root].left_
      right == nodes[root].right_
  IN /\ (tcall.op = "insert" /\ tcall.n = 3 /\ Cardinality(inserted) = 3) =>
          /\ nodes[root].value_ = s[2]
          /\ nodes[left].value_ = s[1]
          /\ nodes[right].value_ = s[3]
          /\ ~red(nodes, root) /\ ~red(nodes, left) /\ ~red(nodes, right)
     /\ (tcall.op = "insert" /\ tcall.n = 2 /\ Cardinality(inserted) = 2) =>
          /\ ~red(nodes, root)
          /\ ~empty(nodes, left) => red(nodes, left)
          /\ right = Empty /\ ~red(nodes, right)

\* the third insert was the smallest value, into a tree whose root held the
\* largest: the right rotation and the colour flip have happened
C31_Witness ==
  /\ tcall.op = "insert" /\ tcall.n = 3 /\ Cardinality(inserted) = 3
  /\ tcall.value = Ascending(inserted)[1]
  /\ nodes[tcall.root].value_ = Ascending(inserted)[3]
  /\ nodes[root].value_ = Ascending(inserted)[2]
  /\ ~red(nodes, nodes[root].left_) /\ ~red(nodes, nodes[root].right_)

\* C32: on a tree that contains key k, LowerBound(root, k, comparator)
\* returns a cursor that is not at end and whose current node has key k.
C32_LowerBoundFinds ==
  (icall.op = "LowerBound" /\ icall.key \in KeysOf(nodes, root)) =>
    /\ ~iter.end_
    /\ iter.stack_ # <<>>
    /\ nodes[top(iter)].key_ = icall.key

\* C33: ++ on a cursor that is at end changes nothing: the cursor still
\* dereferences to Empty() and compares equal to End(root).  In the policy
\* revision the cursor at end is any cursor with end_ set; in the sentinel
\* revision it is a cursor whose top is Empty().
C33_IncrementAtEnd ==
  [][ /\ \A policy \in Policies :
           LET e == End(nodes, policy, root)
           IN PreIncrement(nodes, e) = e /\ top(PreIncrement(nodes, e)) = Empty
      /\ (iter.policy = "Sentinel" /\ AtRest /\ SentinelTop(iter) = Empty) =>
           /\ icall'.op = "++"
           /\ iter' = iter
           /\ SentinelTop(iter') = SentinelTop(SentinelEnd(nodes', root'))
    ]_vars

\* C34: in the sentinel revision operator++ terminates for every cursor over
\* a finite tree: once in its loop over the right child of the node it has
\* left, the call returns.
C34_IncrementTerminates ==
  (icall.op = "loop" /\ icall.key # nullptr) ~> (icall.op = "++")

\* C35: in the policy revision -- undoes ++: for a cursor c reached from
\* Begin(root) by ++ steps and not at end, ++ then -- gives a cursor that
\* dereferences to the node of c, and a further ++ reaches the node that
\* followed c.
C35_DecrementUndoesIncrement ==
  (iter.policy \in Policies /\ icall.op \in {"Begin", "++"} /\ ~iter.end_) =>
    LET next == PreIncrement(nodes, iter)
        back == PreDecrement(nodes, next)
    IN /\ ~back.end_ /\ back.stack_ # <<>>
       /\ top(back) = top(iter)
       /\ top(PreIncrement(nodes, back)) = top(next)

\* C36: after any sequence of ++ and -- on a cursor made by Begin, End or
\* LowerBound on a non-empty tree, the stack is non-empty whenever the end
\* flag is false, so top() never reads the top of an empty stack.
C36_Dereferenceable ==
  iter.policy \in Policies => (~iter.end_ => iter.stack_ # <<>>)

\* C37: after any sequence of inserts from Empty() with arbitrary (key,
\* value) pairs the values are in strictly ascending order along the
\* in-order traversal: the tree is a search tree on the values.
C37_SearchTreeOnValues ==
  LET s == InOrder(nodes, root)
  IN \A i \in 1..(Len(s) - 1) : comparator(s[i][2], s[i + 1][2])

\* a tree of three or more nodes, built with a key that differs from its
\* value, in which a rotation has left a node with the key of another entry
C37_Witness ==
  /\ tcall.op = "insert"
  /\ nodes[root].size_ >= 3
  /\ \E p \in Live(nodes, root) : nodes[p].key_ # nodes[p].value_
  /\ \E p, q \in Live(nodes, root) : p # q /\ nodes[p].key_ = nodes[q].key_
  /\ C37_SearchTreeOnValues

\* C38: the map the initializer-list constructor makes from entries with
\* distinct keys, listed in any order, has its keys in ascending order, and
\* find(k) locates every listed key k.
C38_ListCtorSorted ==
  acall.op \in {"ctor", "find"} =>
    LET arr == arrays[map]
    IN /\ \A i \in 1..(Len(arr) - 1) :
            key_comparator_(arr[i].first, arr[i + 1].first)
       /\ \A k \in live_keys :
            Found(arr, k) # <<>> /\ Found(arr, k)[1].first = k

\* C39: erasing the only entry of a one-entry map returns a map on the
\* static empty array, the array of a default-constructed map: no array is
\* allocated, the size is 0 and find of any key is end().
C39_EraseLastSharesEmpty ==
  (/\ acall.op = "erase"
   /\ Len(arrays[acall.m]) = 1
   /\ arrays[acall.m][1].first = acall.key) =>
    /\ acall.ret = EmptyArray
    /\ DOMAIN arrays \subseteq {EmptyArray, acall.m}
    /\ map_size(arrays[acall.ret]) = 0
    /\ \A key \in Probes :
         find(arrays[acall.ret], key) = Len(arrays[acall.ret])

\* the only entry of a one-entry map has been erased
C39_Witness ==
  /\ acall.op = "erase"
  /\ Len(arrays[acall.m]) = 1
  /\ arrays[acall.m][1].first = acall.key
  /\ acall.m # EmptyArray
  /\ map = EmptyArray

\* C40: in every tree reachable by inserts from Empty() every non-empty node
\* has two non-null children, every empty child is the one Empty() node, and
\* Empty() stays black with size 0 and null children; no object held is a
\* copy of it.
C40_CanonicalEmpty ==
  /\ nodes[Empty] = EmptyNode
  /\ \A p \in DOMAIN nodes : empty(nodes, p) => p = Empty
  /\ \A p \in Live(nodes, root) \cup Live(nodes, tcall.root) :
       /\ nodes[p].left_ # nullptr /\ nodes[p].right_ # nullptr
       /\ nodes[p].left_ \in DOMAIN nodes /\ nodes[p].right_ \in DOMAIN nodes

\* a three-node tree after the colour flip: both leaves, copies made by
\* FlipColor, have Empty() as their two children
C40_Witness ==
  /\ tcall.op = "insert"
  /\ nodes[root].size_ = 3
  /\ nodes[tcall.root].size_ = 2
  /\ \A c \in {nodes[root].left_, nodes[root].right_} :
       /\ c \notin Reach(nodes, tcall.root)
       /\ ~empty(nodes, c)
       /\ nodes[c].left_ = Empty /\ nodes[c].right_ = Empty
  /\ C40_CanonicalEmpty

====
